---- MODULE Spec2Model ----
(***************************************************************************)
(* A model of xonsh's completion dispatcher (xonsh/completer.py) and of    *)
(* the error and state handling of its parser (xonsh/parser.py).           *)
(*                                                                         *)
(* Python strings are sequences of one-character strings, so that          *)
(* formatting is concatenation and ordering is by code point.              *)
(***************************************************************************)
EXTENDS Integers, Sequences, FiniteSets

VARIABLES
    \* ---- Completer.complete ----
    registry,    \* builtins.__xonsh_completers__.values(): what each provider does when called
    prefix,      \* the prefix argument
    i,           \* number of loop iterations of `for func in ...` completed
    res,         \* local variable res
    lprefix,     \* local variable lprefix
    invoked,     \* indexes of the providers called so far, in call order
    cpc,         \* position in complete: "loop" or "done"
    result,      \* what complete returned or raised
    \* ---- Parser ----
    scope_stack,          \* Parser._scope_stack
    last_yielded_token,   \* Parser._last_yielded_token
    lexer_filename,       \* Parser.lexer.filename
    lexer_fname,          \* Parser.lexer.fname
    lexer_lineno,         \* Parser.lexer.lineno
    ppc,                  \* position in parse: "idle" or "handoff"
    outcome,              \* how the last parser operation ended
    last_op,              \* the last parser operation and its arguments
    pre_stack,            \* TRUE iff the last parse call was entered with _scope_stack # [dict()]
    pre_token,            \* TRUE iff the last parse call was entered with a remembered token
    prior_call            \* TRUE once a parse call has ended

cvars == <<registry, prefix, i, res, lprefix, invoked, cpc, result>>
pvars == <<scope_stack, last_yielded_token, lexer_filename, lexer_fname, lexer_lineno,
           ppc, outcome, last_op, pre_stack, pre_token, prior_call>>
vars == <<registry, prefix, i, res, lprefix, invoked, cpc, result,
          scope_stack, last_yielded_token, lexer_filename, lexer_fname, lexer_lineno,
          ppc, outcome, last_op, pre_stack, pre_token, prior_call>>

\* ------------------------------------------------------------------ bounds

\* Largest number of providers in the registry.
MaxProviders == 2

\* Largest depth of the scope stack.
MaxDepth == 2

\* ------------------------------------------------------------------ strings

EmptyStr == <<>>
StrA == <<"a">>
StrBA == <<"b", "a">>

\* Code point of a character (ord).
Ord(c) ==
    CASE c = "a" -> 97
      [] c = "b" -> 98
      [] OTHER -> 0

\* Python's s < t on str: lexicographic by code point, a proper prefix first.
RECURSIVE StrLess(_, _)
StrLess(s, t) ==
    IF t = <<>> THEN FALSE
    ELSE IF s = <<>> THEN TRUE
    ELSE IF Ord(Head(s)) # Ord(Head(t)) THEN Ord(Head(s)) < Ord(Head(t))
    ELSE StrLess(Tail(s), Tail(t))

\* Insert x into the sorted sequence q after every element not greater than it.
RECURSIVE SortedInsert(_, _)
SortedInsert(x, q) ==
    IF q = <<>> THEN <<x>>
    ELSE IF StrLess(x, Head(q)) THEN <<x>> \o q
    ELSE <<Head(q)>> \o SortedInsert(x, Tail(q))

\* sorted(list of str): ascending, duplicates kept.
RECURSIVE SortList(_)
SortList(q) ==
    IF q = <<>> THEN <<>>
    ELSE SortedInsert(q[Len(q)], SortList(SubSeq(q, 1, Len(q) - 1)))

\* sorted(set of str).
RECURSIVE SortSet(_)
SortSet(S) ==
    IF S = {} THEN <<>>
    ELSE LET x == CHOOSE y \in S : TRUE
         IN SortedInsert(x, SortSet(S \ {x}))

\* list(s) for a str s: its characters as one-character strings.
CharsOf(s) == [j \in 1..Len(s) |-> <<s[j]>>]

\* ------------------------------------------------------------------ Python values

\* A replacement length as the code holds it: unbound, an int, or a str.
Unbound == [k |-> "unbound", n |-> 0, s |-> <<>>]
IntVal(n) == [k |-> "int", n |-> n, s |-> <<>>]
StrVal(s) == [k |-> "str", n |-> 0, s |-> s]

\* The local variable res: None, a set, a list, or a str.
ResNone == [k |-> "none", set |-> {}, items |-> <<>>, s |-> <<>>]
ResSet(S) == [k |-> "set", set |-> S, items |-> <<>>, s |-> <<>>]
ResList(q) == [k |-> "list", set |-> {}, items |-> q, s |-> <<>>]
ResStr(s) == [k |-> "str", set |-> {}, items |-> <<>>, s |-> s]

\* What a provider does when called.
Abort == [kind |-> "abort", set |-> {}, items |-> <<>>, lp |-> 0]
RetNone == [kind |-> "none", set |-> {}, items |-> <<>>, lp |-> 0]
RetSet(S) == [kind |-> "set", set |-> S, items |-> <<>>, lp |-> 0]
RetList(q) == [kind |-> "list", set |-> {}, items |-> q, lp |-> 0]
RetTuple(q) == [kind |-> "tuple", set |-> {}, items |-> q, lp |-> 0]
RetPairSet(S, n) == [kind |-> "pair_set", set |-> S, items |-> <<>>, lp |-> n]
RetPairList(q, n) == [kind |-> "pair_list", set |-> {}, items |-> q, lp |-> n]
RetPairNone(n) == [kind |-> "pair_none", set |-> {}, items |-> <<>>, lp |-> n]

\* The candidate collections and replacement lengths providers are drawn from.
CandSets == {{}, {StrA}, {StrBA, StrA}, {EmptyStr, StrA, StrBA}}
CandLists == {<<>>, <<StrA>>, <<StrBA, StrA>>, <<StrA, StrA>>, <<EmptyStr, StrA>>,
              <<StrBA, StrA, StrA>>}
Lengths == {0, 3}
Prefixes == {EmptyStr, StrBA}

Outcomes ==
    {Abort, RetNone}
    \cup {RetSet(S) : S \in CandSets}
    \cup {RetList(q) : q \in CandLists}
    \cup {RetTuple(q) : q \in CandLists}
    \cup {RetPairSet(S, n) : S \in CandSets, n \in Lengths}
    \cup {RetPairList(q, n) : q \in CandLists, n \in Lengths}
    \cup {RetPairNone(n) : n \in Lengths}

Registries == UNION {[1..n -> Outcomes] : n \in 0..MaxProviders}

\* What complete returned or raised.
Pending == [kind |-> "pending", cands |-> <<>>, lprefix |-> Unbound, exc |-> ""]
Return(c, lp) == [kind |-> "return", cands |-> c, lprefix |-> lp, exc |-> ""]
Raise(e) == [kind |-> "raise", cands |-> <<>>, lprefix |-> Unbound, exc |-> e]

\* ------------------------------------------------------------------ Completer.complete

\* try: out = func(...) except StopIteration
RaisesStopIteration(out) == out.kind = "abort"

\* return set(), len(prefix)
AbortResultZero(p) == Return(<<>>, IntVal(0))
AbortResult(p) == Return(<<>>, IntVal(Len(p)))

\* isinstance(out, abc.Sequence): lists and tuples are, sets and None are not.
IsSequence(out) == out.kind \in {"list", "tuple", "pair_set", "pair_list", "pair_none"}

\* len(out) for a sequence.
SeqLen(out) == IF out.kind \in {"list", "tuple"} THEN Len(out.items) ELSE 2

\* res, lprefix = out raises ValueError unless out has exactly two elements.
UnpackFails(out) == IsSequence(out) /\ SeqLen(out) # 2

\* lprefix = len(prefix)
DefaultLprefixZero(p) == IntVal(0)
DefaultLprefix(p) == IntVal(Len(p))

\* res after the if/else, for an out that unpacks.
ResOf(out) ==
    CASE out.kind \in {"list", "tuple"} -> ResStr(out.items[1])
      [] out.kind = "pair_set" -> ResSet(out.set)
      [] out.kind = "pair_list" -> ResList(out.items)
      [] out.kind = "pair_none" -> ResNone
      [] out.kind = "set" -> ResSet(out.set)
      [] OTHER -> ResNone

\* lprefix after the if/else, for an out that unpacks.
LprefixOf(out, p) ==
    CASE out.kind \in {"list", "tuple"} -> StrVal(out.items[2])
      [] out.kind \in {"pair_set", "pair_list", "pair_none"} -> IntVal(out.lp)
      [] OTHER -> DefaultLprefix(p)

\* len(res)
PyLen(r) ==
    CASE r.k = "set" -> Cardinality(r.set)
      [] r.k = "list" -> Len(r.items)
      [] r.k = "str" -> Len(r.s)
      [] OTHER -> 0

\* res is not None and len(res) != 0
HasCandidatesNotNone(r) == r.k # "none"
HasCandidates(r) == r.k # "none" /\ PyLen(r) # 0

\* tuple(sorted(res))
SortedAsGiven(r) ==
    CASE r.k = "set" -> SortSet(r.set)
      [] r.k = "list" -> r.items
      [] r.k = "str" -> CharsOf(r.s)
      [] OTHER -> <<>>
Sorted(r) ==
    CASE r.k = "set" -> SortSet(r.set)
      [] r.k = "list" -> SortList(r.items)
      [] r.k = "str" -> SortList(CharsOf(r.s))
      [] OTHER -> <<>>

\* return set(), lprefix after the loop: lprefix is unbound if the loop body never ran.
FallThroughResult(lp) ==
    IF lp.k = "unbound" THEN Raise("UnboundLocalError") ELSE Return(<<>>, lp)

InitCompleter ==
    /\ registry \in Registries
    /\ prefix \in Prefixes
    /\ i = 0
    /\ res = ResNone
    /\ lprefix = Unbound
    /\ invoked = <<>>
    /\ cpc = "loop"
    /\ result = Pending

\* The provider raises StopIteration.
ProviderAborts ==
    /\ cpc = "loop" /\ i < Len(registry)
    /\ RaisesStopIteration(registry[i + 1])
    /\ invoked' = Append(invoked, i + 1)
    /\ result' = AbortResult(prefix)
    /\ cpc' = "done"
    /\ UNCHANGED <<registry, prefix, i, res, lprefix>>

\* The provider returns a sequence that is not of length two.
ProviderUnpackError ==
    /\ cpc = "loop" /\ i < Len(registry)
    /\ ~RaisesStopIteration(registry[i + 1])
    /\ UnpackFails(registry[i + 1])
    /\ invoked' = Append(invoked, i + 1)
    /\ result' = Raise("ValueError")
    /\ cpc' = "done"
    /\ UNCHANGED <<registry, prefix, i, res, lprefix>>

\* The provider's res is not None and not empty: return it sorted.
ProviderMatches ==
    /\ cpc = "loop" /\ i < Len(registry)
    /\ ~RaisesStopIteration(registry[i + 1])
    /\ ~UnpackFails(registry[i + 1])
    /\ HasCandidates(ResOf(registry[i + 1]))
    /\ invoked' = Append(invoked, i + 1)
    /\ res' = ResOf(registry[i + 1])
    /\ lprefix' = LprefixOf(registry[i + 1], prefix)
    /\ result' = Return(Sorted(res'), lprefix')
    /\ cpc' = "done"
    /\ UNCHANGED <<registry, prefix, i>>

\* The provider's res is None or empty: go on with the next provider.
ProviderEmpty ==
    /\ cpc = "loop" /\ i < Len(registry)
    /\ ~RaisesStopIteration(registry[i + 1])
    /\ ~UnpackFails(registry[i + 1])
    /\ ~HasCandidates(ResOf(registry[i + 1]))
    /\ invoked' = Append(invoked, i + 1)
    /\ res' = ResOf(registry[i + 1])
    /\ lprefix' = LprefixOf(registry[i + 1], prefix)
    /\ i' = i + 1
    /\ UNCHANGED <<registry, prefix, cpc, result>>

\* The loop is exhausted.
FallThrough ==
    /\ cpc = "loop" /\ i = Len(registry)
    /\ result' = FallThroughResult(lprefix)
    /\ cpc' = "done"
    /\ UNCHANGED <<registry, prefix, i, res, lprefix, invoked>>

\* ------------------------------------------------------------------ Location

FileNames == {<<"f">>, <<"<", "c", "o", "d", "e", ">">>}
Lines == {1, 12}
Columns == {0, 7}
Names == {"x"}

\* An optional column: None or an int.
NoColumn == [some |-> FALSE, n |-> 0]
Column(c) == [some |-> TRUE, n |-> c]
OptColumns == {NoColumn} \cup {Column(c) : c \in Columns}

Digit(d) ==
    CASE d = 0 -> "0" [] d = 1 -> "1" [] d = 2 -> "2" [] d = 3 -> "3" [] d = 4 -> "4"
      [] d = 5 -> "5" [] d = 6 -> "6" [] d = 7 -> "7" [] d = 8 -> "8" [] OTHER -> "9"

\* '{0}'.format(n) for an int n >= 0.
RECURSIVE IntToStr(_)
IntToStr(n) ==
    IF n < 10 THEN <<Digit(n)>> ELSE IntToStr(n \div 10) \o <<Digit(n % 10)>>

\* Location.__init__: self.fname is assigned, then `self.lineno = line` reads the
\* name `line`, which is bound nowhere: NameError, and no object is returned.
LocationInit(fname, lineno, column) ==
    [exc |-> "NameError", fname |-> fname, lineno |-> 0, column |-> NoColumn]

\* Location.__str__
LocationStr(loc) ==
    LET s == loc.fname \o <<":">> \o IntToStr(loc.lineno)
    IN IF loc.column.some THEN s \o <<":">> \o IntToStr(loc.column.n) ELSE s

\* ------------------------------------------------------------------ Parser

\* A token handed to p_error, or None.
NoToken == [present |-> FALSE, value |-> <<>>, lineno |-> 0, col |-> 0]
Token(v, l, c) == [present |-> TRUE, value |-> v, lineno |-> l, col |-> c]
Tokens == {Token(<<")">>, l, c) : l \in Lines, c \in Columns}

\* dict(): a scope with no names.
EmptyScope == [n \in {} |-> TRUE]

\* How a parser operation ended.
NoLocation == [fname |-> <<>>, lineno |-> 0, column |-> NoColumn]
NoOutcome == [kind |-> "none", text |-> <<>>, loc_calls |-> 0, obj |-> NoLocation]
Failure(k, t, n) == [kind |-> k, text |-> t, loc_calls |-> n, obj |-> NoLocation]
Built(loc, t) ==
    [kind |-> "Location", text |-> t, loc_calls |-> 1,
     obj |-> [fname |-> loc.fname, lineno |-> loc.lineno, column |-> loc.column]]

NoOp == [name |-> "none", tok |-> NoToken, fname |-> <<>>, lineno |-> 0, column |-> NoColumn]
Op(nm, tk, f, l, c) == [name |-> nm, tok |-> tk, fname |-> f, lineno |-> l, column |-> c]

\* self._scope_stack = [dict()] in parse
ParseScopeStackKept(old) == old
ParseScopeStack(old) == <<EmptyScope>>

\* self._last_yielded_token = None in parse
ParseLastToken(old) == NoToken

\* Lexer.token_col(p): the column of the token.
token_col(p) == p.col

\* Parser.currloc
currloc(lineno, column) == LocationInit(lexer_fname, lineno, column)

\* SyntaxError('{0}: {1}'.format(loc, msg))
ParseErrorTextNoSep(loc, msg) == loc \o msg
ParseErrorText(loc, msg) == loc \o <<":", " ">> \o msg

NoFurtherCode ==
    <<"n", "o", " ", "f", "u", "r", "t", "h", "e", "r", " ", "c", "o", "d", "e">>

\* msg = 'code: {0}'.format(p.value),   -- the trailing comma makes msg a 1-tuple,
\* which format renders as ('code: <value>',)
TokenMsg(p) ==
    <<"(", "'", "c", "o", "d", "e", ":", " ">> \o p.value \o <<"'", ",", ")">>

\* p_error(p) for a token p: the Location is built before _parse_error is entered.
TokenError(p) ==
    LET loc == currloc(p.lineno, Column(token_col(p)))
    IN IF loc.exc # "" THEN Failure(loc.exc, <<>>, 1)
       ELSE Failure("SyntaxError", ParseErrorText(LocationStr(loc), TokenMsg(p)), 1)

\* p_error(None)
EndOfInputError == Failure("SyntaxError", ParseErrorText(<<>>, NoFurtherCode), 0)

InitParser ==
    /\ scope_stack = <<EmptyScope>>
    /\ last_yielded_token = NoToken
    /\ lexer_filename = <<>>
    /\ lexer_fname \in {<<>>, <<"f">>}
    /\ lexer_lineno = 1
    /\ ppc = "idle"
    /\ outcome = NoOutcome
    /\ last_op = NoOp
    /\ pre_stack = FALSE
    /\ pre_token = FALSE
    /\ prior_call = FALSE

\* parse(s, filename), up to the call of the grammar engine.
Parse(filename) ==
    /\ ppc = "idle"
    /\ pre_stack' = (scope_stack # <<EmptyScope>>)
    /\ pre_token' = (last_yielded_token # NoToken)
    /\ lexer_filename' = filename
    /\ lexer_lineno' = 0
    /\ scope_stack' = ParseScopeStack(scope_stack)
    /\ last_yielded_token' = ParseLastToken(last_yielded_token)
    /\ ppc' = "handoff"
    /\ outcome' = NoOutcome
    /\ last_op' = Op("parse", NoToken, filename, 0, NoColumn)
    /\ UNCHANGED <<lexer_fname, prior_call>>

\* tree = self.cparser.parse(...): the Parser has no attribute cparser (__init__
\* stores the engine as self.parser), so the call ends in AttributeError.
ParseHandOff ==
    /\ ppc = "handoff"
    /\ outcome' = Failure("AttributeError", <<>>, 0)
    /\ ppc' = "idle"
    /\ prior_call' = TRUE
    /\ UNCHANGED <<scope_stack, last_yielded_token, lexer_filename, lexer_fname,
                   lexer_lineno, last_op, pre_stack, pre_token>>

\* The grammar engine rejects the input at token p.
P_errorToken(p) ==
    /\ ppc = "idle"
    /\ outcome' = TokenError(p)
    /\ last_op' = Op("p_error", p, <<>>, 0, NoColumn)
    /\ UNCHANGED <<scope_stack, last_yielded_token, lexer_filename, lexer_fname,
                   lexer_lineno, ppc, pre_stack, pre_token, prior_call>>

\* The grammar engine rejects the input with no token left.
P_errorEnd ==
    /\ ppc = "idle"
    /\ outcome' = EndOfInputError
    /\ last_op' = Op("p_error", NoToken, <<>>, 0, NoColumn)
    /\ UNCHANGED <<scope_stack, last_yielded_token, lexer_filename, lexer_fname,
                   lexer_lineno, ppc, pre_stack, pre_token, prior_call>>

\* Location(fname, lineno, column)
NewLocation(f, l, c) ==
    /\ ppc = "idle"
    /\ LET loc == LocationInit(f, l, c)
       IN outcome' = IF loc.exc # "" THEN Failure(loc.exc, <<>>, 1)
                     ELSE Built(loc, LocationStr(loc))
    /\ last_op' = Op("Location", NoToken, f, l, c)
    /\ UNCHANGED <<scope_stack, last_yielded_token, lexer_filename, lexer_fname,
                   lexer_lineno, ppc, pre_stack, pre_token, prior_call>>

\* A grammar action enters a nested scope.
PushScope ==
    /\ ppc = "idle" /\ Len(scope_stack) < MaxDepth
    /\ scope_stack' = Append(scope_stack, EmptyScope)
    /\ UNCHANGED <<last_yielded_token, lexer_filename, lexer_fname, lexer_lineno, ppc,
                   outcome, last_op, pre_stack, pre_token, prior_call>>

\* A grammar action leaves a nested scope; the global scope stays.
PopScope ==
    /\ ppc = "idle" /\ Len(scope_stack) > 1
    /\ scope_stack' = SubSeq(scope_stack, 1, Len(scope_stack) - 1)
    /\ UNCHANGED <<last_yielded_token, lexer_filename, lexer_fname, lexer_lineno, ppc,
                   outcome, last_op, pre_stack, pre_token, prior_call>>

\* A grammar action records in the innermost scope whether a name is a type.
DeclareName(nm, is_type) ==
    /\ ppc = "idle"
    /\ LET top == scope_stack[Len(scope_stack)]
           new == [n \in DOMAIN top \cup {nm} |-> IF n = nm THEN is_type ELSE top[n]]
       IN scope_stack' = [scope_stack EXCEPT ![Len(scope_stack)] = new]
    /\ UNCHANGED <<last_yielded_token, lexer_filename, lexer_fname, lexer_lineno, ppc,
                   outcome, last_op, pre_stack, pre_token, prior_call>>

\* The token source hands a token to the grammar engine.
YieldToken(p) ==
    /\ ppc = "idle"
    /\ last_yielded_token' = p
    /\ UNCHANGED <<scope_stack, lexer_filename, lexer_fname, lexer_lineno, ppc,
                   outcome, last_op, pre_stack, pre_token, prior_call>>

\* ------------------------------------------------------------------ specifications

NextCompleter ==
    \/ ProviderAborts /\ UNCHANGED pvars
    \/ ProviderUnpackError /\ UNCHANGED pvars
    \/ ProviderMatches /\ UNCHANGED pvars
    \/ ProviderEmpty /\ UNCHANGED pvars
    \/ FallThrough /\ UNCHANGED pvars

NextParser ==
    \/ (\E f \in FileNames : Parse(f)) /\ UNCHANGED cvars
    \/ ParseHandOff /\ UNCHANGED cvars
    \/ (\E p \in Tokens : P_errorToken(p)) /\ UNCHANGED cvars
    \/ P_errorEnd /\ UNCHANGED cvars
    \/ (\E f \in FileNames, l \in Lines, c \in OptColumns : NewLocation(f, l, c))
          /\ UNCHANGED cvars
    \/ PushScope /\ UNCHANGED cvars
    \/ PopScope /\ UNCHANGED cvars
    \/ (\E nm \in Names, b \in BOOLEAN : DeclareName(nm, b)) /\ UNCHANGED cvars
    \/ (\E p \in Tokens : YieldToken(p)) /\ UNCHANGED cvars

\* One complete call, on every registry and prefix; the parser is left as built.
InitC ==
    /\ InitCompleter
    /\ InitParser /\ lexer_fname = <<>>

\* One Parser instance; no complete call is made (the registry is empty).
InitP ==
    /\ InitParser
    /\ InitCompleter /\ registry = <<>> /\ prefix = EmptyStr

SpecCompleter == InitC /\ [][NextCompleter]_vars
SpecParser == InitP /\ [][NextParser]_vars

\* ------------------------------------------------------------------ what the claims speak of

\* A provider's candidate collection is non-empty.
CandNonEmpty(out) ==
    CASE out.kind \in {"set", "pair_set"} -> out.set # {}
      [] out.kind \in {"list", "tuple", "pair_list"} -> out.items # <<>>
      [] OTHER -> FALSE

\* How often x occurs in a provider's candidate collection.
CandCount(out, x) ==
    CASE out.kind \in {"set", "pair_set"} -> IF x \in out.set THEN 1 ELSE 0
      [] out.kind \in {"list", "tuple", "pair_list"} ->
            Cardinality({j \in 1..Len(out.items) : out.items[j] = x})
      [] OTHER -> 0

\* The distinct strings of a provider's candidate collection.
CandStrings(out) ==
    CASE out.kind \in {"set", "pair_set"} -> out.set
      [] out.kind \in {"list", "tuple", "pair_list"} ->
            {out.items[j] : j \in 1..Len(out.items)}
      [] OTHER -> {}

\* The replacement length a provider reports: the pair's, else len(prefix).
ReportedLength(out, p) ==
    IF out.kind \in {"pair_set", "pair_list", "pair_none"} THEN out.lp ELSE Len(p)

IsPair(out) == out.kind \in {"pair_set", "pair_list", "pair_none"}
IsBareSequence(out) == out.kind \in {"list", "tuple"}

NonDecreasing(q) == \A a, b \in 1..Len(q) : a < b => ~StrLess(q[b], q[a])
StrictlyIncreasing(q) == \A a, b \in 1..Len(q) : a < b => StrLess(q[a], q[b])
SameBag(q, out) ==
    /\ \A j \in 1..Len(q) :
          Cardinality({m \in 1..Len(q) : q[m] = q[j]}) = CandCount(out, q[j])
    /\ \A x \in CandStrings(out) : \E j \in 1..Len(q) : q[j] = x

\* Provider k is the first with a non-empty collection, and none before it aborts.
FirstMatch(k) ==
    /\ k \in 1..Len(registry)
    /\ CandNonEmpty(registry[k])
    /\ \A j \in 1..(k - 1) : ~CandNonEmpty(registry[j]) /\ registry[j].kind # "abort"

\* Provider a raises the abort signal when called, and every provider before it
\* returns an empty or absent result.
FirstAbort(a) ==
    /\ a \in 1..Len(registry)
    /\ registry[a].kind = "abort"
    /\ \A j \in 1..(a - 1) : ~CandNonEmpty(registry[j]) /\ registry[j].kind # "abort"

\* Providers were called in insertion order, and none after provider k.
CalledInOrderUpTo(k) ==
    /\ Len(invoked) <= k
    /\ \A j \in 1..Len(invoked) : invoked[j] = j

FirstMatchWins(k) ==
    /\ CalledInOrderUpTo(k)
    /\ cpc = "done" =>
          /\ result.kind = "return"
          /\ NonDecreasing(result.cands)
          /\ SameBag(result.cands, registry[k])
          /\ result.lprefix = IntVal(ReportedLength(registry[k], prefix))
          /\ Len(invoked) = k

AbortShortCircuits(a) ==
    /\ CalledInOrderUpTo(a)
    /\ cpc = "done" =>
          /\ result = Return(<<>>, IntVal(Len(prefix)))
          /\ Len(invoked) = a

\* ------------------------------------------------------------------ claims

\* C1 as stated: for every registry, if provider k is the first whose candidate
\* collection is non-empty and no earlier provider aborted, complete calls the
\* providers in insertion order, none after k, and returns k's candidates sorted
\* with k's replacement length.
C1_FirstMatchWinsAnyProvider == \A k \in 1..Len(registry) : FirstMatch(k) => FirstMatchWins(k)

\* C1 amended: the same, for registries in which no provider up to and including k
\* returns a bare list or tuple (complete unpacks every sequence as a pair).
C1_FirstMatchWins ==
    \A k \in 1..Len(registry) :
        (FirstMatch(k) /\ \A j \in 1..k : ~IsBareSequence(registry[j])) => FirstMatchWins(k)

\* C1 witness: the first of two providers wins with an unsorted pair collection and
\* its own replacement length; the second, also non-empty, is never called.
C1_Witness ==
    /\ cpc = "done" /\ Len(registry) = 2 /\ prefix = StrBA
    /\ registry[1] = RetPairList(<<StrBA, StrA>>, 3)
    /\ CandNonEmpty(registry[2])
    /\ invoked = <<1>>
    /\ result = Return(<<StrA, StrBA>>, IntVal(3))

\* C2: if a provider raises the abort signal when called, and every provider
\* consulted before it returned an empty or absent result, complete returns at once
\* an empty set with len(prefix), whatever length an earlier provider reported, and
\* calls no later provider.
C2_Abort ==
    \A a \in 1..Len(registry) :
        (FirstAbort(a) /\ \E m \in 1..Len(invoked) : invoked[m] = a)
            => (cpc = "done" /\ AbortShortCircuits(a))

\* C2 witness: the second provider aborts after the first reported an empty result
\* with replacement length 3; complete returns len(prefix) = 2.
C2_Witness ==
    /\ cpc = "done" /\ prefix = StrBA
    /\ registry = <<RetPairSet({}, 3), Abort>>
    /\ invoked = <<1, 2>>
    /\ result = Return(<<>>, IntVal(2))

\* C5: when every provider returns an empty or absent result and none aborts,
\* complete returns an empty set with the replacement length the last provider
\* reported, or len(prefix) when there is none, an empty registry included.
C5_Fallback ==
    (/\ cpc = "done"
     /\ \A j \in 1..Len(registry) : ~CandNonEmpty(registry[j]) /\ registry[j].kind # "abort")
    => result = Return(<<>>, IntVal(IF Len(registry) = 0 THEN Len(prefix)
                                    ELSE ReportedLength(registry[Len(registry)], prefix)))

\* C6: complete never raises: every call ends by returning a value.
C6_NeverRaises == cpc = "done" => result.kind = "return"

\* C7 as stated: a pair is used in both components; a bare collection of any kind
\* (set, list, tuple) and size is used whole, with replacement length len(prefix).
C7_InterpretationAnyCollection ==
    LET j == Len(invoked) IN
    (j >= 1 /\ registry[j].kind \notin {"abort", "none"}) =>
        LET out == registry[j] IN
        /\ result.kind # "raise"
        /\ out.kind = "pair_set" => res = ResSet(out.set) /\ lprefix = IntVal(out.lp)
        /\ out.kind = "pair_list" => res = ResList(out.items) /\ lprefix = IntVal(out.lp)
        /\ out.kind = "pair_none" => res = ResNone /\ lprefix = IntVal(out.lp)
        /\ out.kind = "set" => res = ResSet(out.set) /\ lprefix = IntVal(Len(prefix))
        /\ IsBareSequence(out) => res = ResList(out.items) /\ lprefix = IntVal(Len(prefix))

\* C7 amended: a pair is used in both components; a bare set of any size is used
\* whole, with replacement length len(prefix); a bare list or tuple is unpacked as a
\* pair: with exactly two elements the first becomes the candidates and the second
\* the replacement length, with any other size complete raises ValueError.
C7_Interpretation ==
    LET j == Len(invoked) IN
    (j >= 1 /\ registry[j].kind \notin {"abort", "none"}) =>
        LET out == registry[j] IN
        /\ out.kind = "pair_set" => res = ResSet(out.set) /\ lprefix = IntVal(out.lp)
        /\ out.kind = "pair_list" => res = ResList(out.items) /\ lprefix = IntVal(out.lp)
        /\ out.kind = "pair_none" => res = ResNone /\ lprefix = IntVal(out.lp)
        /\ out.kind = "set" => res = ResSet(out.set) /\ lprefix = IntVal(Len(prefix))
        /\ ~IsBareSequence(out) => result.kind # "raise"
        /\ (IsBareSequence(out) /\ Len(out.items) = 2) =>
              /\ result.kind # "raise"
              /\ res = ResStr(out.items[1])
              /\ lprefix = StrVal(out.items[2])
        /\ (IsBareSequence(out) /\ Len(out.items) # 2) => result = Raise("ValueError")

\* C7 witness: a bare set of three strings is taken whole, with len(prefix) = 2.
C7_Witness ==
    /\ invoked = <<1>> /\ prefix = StrBA
    /\ registry[1] = RetSet({EmptyStr, StrA, StrBA})
    /\ res = ResSet({EmptyStr, StrA, StrBA})
    /\ lprefix = IntVal(2)

\* C8 as stated: the returned candidates are strictly increasing and are exactly
\* the distinct strings of the winning provider's collection.
C8_SortedDistinctAnyProvider ==
    (cpc = "done" /\ result.kind = "return" /\ result.cands # <<>>) =>
        /\ StrictlyIncreasing(result.cands)
        /\ {result.cands[j] : j \in 1..Len(result.cands)}
              = CandStrings(registry[Len(invoked)])

\* C8 amended: when the winning provider returned a set or a pair, the returned
\* candidates are its collection in non-decreasing order, every string as often as
\* the collection holds it: strictly increasing when the collection is a set.
C8_Sorted ==
    (cpc = "done" /\ result.kind = "return" /\ result.cands # <<>>
        /\ ~IsBareSequence(registry[Len(invoked)])) =>
        LET out == registry[Len(invoked)] IN
        /\ NonDecreasing(result.cands)
        /\ SameBag(result.cands, out)
        /\ out.kind \in {"set", "pair_set"} =>
              /\ StrictlyIncreasing(result.cands)
              /\ {result.cands[j] : j \in 1..Len(result.cands)} = out.set

\* C8 witness: a pair whose list holds "a" twice is returned sorted, "a" twice.
C8_Witness ==
    /\ cpc = "done" /\ invoked = <<1>>
    /\ registry[1] = RetPairList(<<StrBA, StrA, StrA>>, 3)
    /\ result.cands = <<StrA, StrA, StrBA>>

\* C3: whenever parse hands control to the grammar engine, the scope stack is one
\* empty scope and no token is remembered, whatever earlier calls left behind.
C3_NoLeak == ppc = "handoff" => scope_stack = <<EmptyScope>> /\ last_yielded_token = NoToken

\* C3 witness: a later parse call, entered with scopes and a token left behind, is
\* at the hand-over.
C3_Witness == ppc = "handoff" /\ prior_call /\ pre_stack /\ pre_token

\* C4: when the engine rejects the input at a token, the failure is a SyntaxError
\* whose text is "<filename>:<line>:<column>: <message>", with the filename of the
\* parse call, the token's line and column, and a plain string as message.
C4_TokenError ==
    (last_op.name = "p_error" /\ last_op.tok.present) =>
        /\ outcome.kind = "SyntaxError"
        /\ outcome.text = lexer_filename \o <<":">> \o IntToStr(last_op.tok.lineno)
                            \o <<":">> \o IntToStr(last_op.tok.col) \o <<":", " ">>
                            \o <<"c", "o", "d", "e", ":", " ">> \o last_op.tok.value

\* C9: when the engine rejects the input with no token left, the failure is a
\* SyntaxError whose text is exactly ": no further code", and no Location is built.
C9_EndOfInput ==
    (last_op.name = "p_error" /\ ~last_op.tok.present) =>
        /\ outcome.kind = "SyntaxError"
        /\ outcome.text = <<":", " ", "n", "o", " ", "f", "u", "r", "t", "h", "e", "r",
                            " ", "c", "o", "d", "e">>
        /\ outcome.loc_calls = 0

\* C9 witness: the error handler ran with no token, after an earlier parse call.
C9_Witness ==
    /\ last_op.name = "p_error" /\ ~last_op.tok.present
    /\ outcome.kind = "SyntaxError" /\ prior_call

\* C10: constructing a Location succeeds and stores the file name, line and column
\* given, and it formats as "file:line", or "file:line:column" with a column.
C10_Location ==
    last_op.name = "Location" =>
        /\ outcome.kind = "Location"
        /\ outcome.obj = [fname |-> last_op.fname, lineno |-> last_op.lineno,
                          column |-> last_op.column]
        /\ outcome.text = last_op.fname \o <<":">> \o IntToStr(last_op.lineno)
                            \o (IF last_op.column.some
                                THEN <<":">> \o IntToStr(last_op.column.n) ELSE <<>>)

====
